---- MODULE Spec2Model ----
(***************************************************************************)
(* A model of the single-file TFTP server of OmarTariq612/tftp-server:     *)
(* the packet codec of server/types.go, the listener loop of               *)
(* TFTPServer.ListenAndServe and the per-client transfer loop of           *)
(* TFTPServer.handle (server/server.go).                                   *)
(*                                                                         *)
(* Bytes are the integers 0..255 and a datagram is a sequence of bytes.    *)
(* The served file is immutable and its content is never inspected by the  *)
(* server, so it is represented by its length; the payload of a Data       *)
(* packet is the slice [from, to) of the file the bytes.Reader cursor      *)
(* handed to io.CopyN, kept as its two offsets, behind the real four       *)
(* header bytes.                                                           *)
(***************************************************************************)
EXTENDS Integers, Sequences, FiniteSets, TLC

(***************************************************************************)
(* Program constants.                                                      *)
(***************************************************************************)
DatagramSize == 516
BlockSize == DatagramSize - 4
ReadOp == 1
WriteOp == 2
DataOp == 3
AcknowledgmentOp == 4
ErrorOp == 5
ErrIllegalOp == 4
\* TFTPServer.retries, as NewTFTPServer sets it.
retries == 10
\* The width of Opcode, ErrCode and Data.BlockNum (uint16).
U16Mod == 65536

(***************************************************************************)
(* Bounds of the model.                                                    *)
(***************************************************************************)
\* Datagrams the listener receives in one behaviour of the server
\* specification.
MaxDatagrams == 2

\* The longest file name of the Requests handed to the codec.
MaxName == 3

\* Transmissions of the transfer of the longest payload that a lossy network
\* loses, or that the client answers with the acknowledgment of the block
\* before.
MaxLosses == 1

Min(a, b) == IF a < b THEN a ELSE b

(***************************************************************************)
(* encoding/binary, big-endian, and the byte conversions of Go.            *)
(***************************************************************************)
\* binary.Write(buf, binary.BigEndian, x) for a uint16 x.
U16Bytes(x) == << (x % U16Mod) \div 256, x % 256 >>

\* binary.BigEndian.Uint16 of the two bytes at positions p, p+1 (1-based).
U16At(b, p) == b[p] * 256 + b[p + 1]

\* byte(x): the conversion of an integer constant to one byte.
ByteOf(x) == x % 256

\* A []byte of n zero bytes (make([]byte, n), or var buf [n]byte).
Zeros(n) == [k \in 1..n |-> 0]

\* n bytes of value c.
Fill(n, c) == [k \in 1..n |-> c]

\* make([]byte, DatagramSize), and var buf [DatagramSize]byte.
ZeroBuf == Zeros(DatagramSize)

\* A buffer of DatagramSize bytes is kept in the state without its trailing
\* zero bytes; Bytes gives the DatagramSize bytes it holds.
RECURSIVE Trim(_)
Trim(b) ==
  IF b = << >> THEN b
  ELSE IF b[Len(b)] # 0 THEN b
  ELSE Trim(SubSeq(b, 1, Len(b) - 1))

Bytes(b) == b \o SubSeq(ZeroBuf, 1, DatagramSize - Len(b))

\* What a read of datagram d into a buffer of DatagramSize bytes holding b
\* leaves in it: the first min(len d, DatagramSize) bytes are overwritten, the
\* rest is kept, and what does not fit is discarded. The byte count the read
\* returns is dropped by both callers.
ReadInto(b, d) ==
  IF Len(d) >= DatagramSize THEN Trim(SubSeq(d, 1, DatagramSize))
  ELSE IF Len(d) >= Len(b) THEN Trim(d)
  ELSE d \o SubSeq(b, Len(d) + 1, Len(b))

\* bytes.Buffer.ReadString(0) from position p (1-based) of b: the position of
\* the first zero byte at or after p, or 0 when there is none (io.EOF).
ZeroAt(b, p) ==
  IF \E j \in p..Len(b) : b[j] = 0
  THEN CHOOSE j \in p..Len(b) : b[j] = 0 /\ \A k \in p..(j - 1) : b[k] # 0
  ELSE 0

\* Mutant of LowerByte: the case is left as it is.
LowerByteKeepsCase(c) == c

\* strings.ToLower on ASCII bytes.
LowerByte(c) == IF c >= 65 /\ c <= 90 THEN c + 32 ELSE c
ToLower(s) == [k \in 1..Len(s) |-> LowerByte(s[k])]

\* "octet"
Octet == << 111, 99, 116, 101, 116 >>

(***************************************************************************)
(* types.go: the codec.                                                    *)
(***************************************************************************)
\* ReadWriteRequest.MarshalBinary.
RequestMarshal(r) ==
  U16Bytes(ReadOp) \o r.Filename \o << 0 >>
    \o (IF r.Mode # << >> THEN r.Mode ELSE Octet) \o << 0 >>

\* ReadWriteRequest.UnmarshalBinary on receiver value r: the error flag and
\* the value the receiver is left with (fields are assigned as they are read,
\* also on a path that ends in an error).
RequestUnmarshal(r, b) ==
  IF Len(b) < 2 THEN [err |-> TRUE, r |-> r]
  ELSE IF U16At(b, 1) # ReadOp /\ U16At(b, 1) # WriteOp THEN [err |-> TRUE, r |-> r]
  ELSE LET z1 == ZeroAt(b, 3) IN
    IF z1 = 0
    THEN [err |-> TRUE, r |-> [r EXCEPT !.Filename = SubSeq(b, 3, Len(b))]]
    ELSE LET fn == SubSeq(b, 3, z1 - 1) IN
      IF Len(fn) = 0 THEN [err |-> TRUE, r |-> [r EXCEPT !.Filename = fn]]
      ELSE LET z2 == ZeroAt(b, z1 + 1) IN
        IF z2 = 0
        THEN [err |-> TRUE,
              r |-> [Filename |-> fn, Mode |-> SubSeq(b, z1 + 1, Len(b))]]
        ELSE LET md == ToLower(SubSeq(b, z1 + 1, z2 - 1)) IN
          [err |-> md # Octet, r |-> [Filename |-> fn, Mode |-> md]]

\* Acknowledgment.MarshalBinary.
AckMarshal(blk) == U16Bytes(AcknowledgmentOp) \o U16Bytes(blk)

\* Acknowledgment.UnmarshalBinary: the error flag and the decoded BlockNum.
AckUnmarshal(b) ==
  IF Len(b) < 2 THEN [err |-> TRUE, BlockNum |-> 0]
  ELSE IF U16At(b, 1) # AcknowledgmentOp THEN [err |-> TRUE, BlockNum |-> 0]
  ELSE IF Len(b) < 4 THEN [err |-> TRUE, BlockNum |-> 0]
  ELSE [err |-> FALSE, BlockNum |-> U16At(b, 3)]

\* Err.MarshalBinary.
ErrMarshal(code, msg) == U16Bytes(ErrorOp) \o U16Bytes(code) \o msg \o << 0 >>

\* Err.UnmarshalBinary: the error flag, the decoded Code and Message.
ErrUnmarshal(b) ==
  IF Len(b) < 2 THEN [err |-> TRUE, Code |-> 0, Message |-> << >>]
  ELSE IF U16At(b, 1) # ErrorOp THEN [err |-> TRUE, Code |-> 0, Message |-> << >>]
  ELSE IF Len(b) < 4 THEN [err |-> TRUE, Code |-> 0, Message |-> << >>]
  ELSE LET z == ZeroAt(b, 5) IN
    IF z = 0
    THEN [err |-> TRUE, Code |-> U16At(b, 3), Message |-> SubSeq(b, 5, Len(b))]
    ELSE [err |-> FALSE, Code |-> U16At(b, 3), Message |-> SubSeq(b, 5, z - 1)]

\* d.BlockNum++ on a uint16.
NextBlockNum(blk) == (blk + 1) % U16Mod

\* io.CopyN(buf, d.Payload, BlockSize): how many bytes a reader at offset
\* cursor of a file of len bytes yields.
CopyN(len, cursor) == Min(BlockSize, len - cursor)

\* Data.MarshalBinary on a Data value with the given BlockNum whose reader is
\* at offset cursor of a file of len bytes: the new BlockNum, the new cursor
\* and the packet.
DataMarshal(blk, cursor, len) ==
  LET b == NextBlockNum(blk)
      k == CopyN(len, cursor)
  IN [BlockNum |-> b,
      cursor |-> cursor + k,
      data |-> [hdr |-> U16Bytes(DataOp) \o U16Bytes(b),
                from |-> cursor, to |-> cursor + k]]

\* len(data) of a marshalled Data packet.
DataLen(p) == Len(p.hdr) + (p.to - p.from)

\* The block number on the wire in a Data packet.
DataBlock(p) == U16At(p.hdr, 3)

\* The Data value before its first MarshalBinary.
NoData == [hdr |-> << >>, from |-> 0, to |-> 0]

\* An Error packet of DatagramSize bytes whose message has no terminating
\* zero.
UnterminatedErr == U16Bytes(ErrorOp) \o U16Bytes(1) \o Fill(BlockSize, 65)

(***************************************************************************)
(* What the network can deliver.                                           *)
(***************************************************************************)
Clients == { "c1", "c2" }

\* File names clients ask for: "f" and "g".
FileF == << 102 >>
FileG == << 103 >>

\* Datagrams sent to the listener's port. The first two are what
\* RequestMarshal produces; the others are a write request in upper case, a
\* request whose mode has no terminating zero on the wire, three bytes of
\* garbage, a request with an empty file name, a request in another mode and
\* an acknowledgment.
ListenerDatagrams ==
  { RequestMarshal([Filename |-> FileF, Mode |-> << >>]),
    RequestMarshal([Filename |-> FileG, Mode |-> Octet]),
    U16Bytes(WriteOp) \o FileF \o << 0, 79, 67, 84, 69, 84, 0 >>,
    U16Bytes(ReadOp) \o FileF \o << 0 >> \o Octet,
    << 1, 2, 3 >>,
    U16Bytes(ReadOp) \o << 0 >> \o Octet \o << 0 >>,
    U16Bytes(ReadOp) \o FileF \o << 0, 109, 97, 105, 108, 0 >>,
    AckMarshal(1) }

\* Datagrams a client may send to a session that awaits the acknowledgment
\* of block blk: the matching acknowledgment, the duplicate of the block
\* before, an acknowledgment cut to its opcode, a well-formed Error packet,
\* an Error packet with no terminating zero, and a Data packet that carries
\* blk.
SessionDatagrams(blk) ==
  { AckMarshal(blk),
    AckMarshal((blk + U16Mod - 1) % U16Mod),
    U16Bytes(AcknowledgmentOp),
    ErrMarshal(1, << >>),
    UnterminatedErr,
    U16Bytes(DataOp) \o U16Bytes(blk) }

\* The datagrams of a client that follows the protocol.
LockstepDatagrams(blk) == { AckMarshal(blk) }

\* The datagrams of the clients of the server specification.
ServerDatagrams(blk) == { AckMarshal(blk), ErrMarshal(1, << >>) }

(***************************************************************************)
(* State.                                                                  *)
(***************************************************************************)
VARIABLES
  payload,     \* TFTPServer.payload: the served file (its length)
  lpc,         \* where ListenAndServe is: "ReadFrom", "Unmarshal", "Stopped"
  lbuf,        \* buf of the current iteration of the listener loop (empty
               \* between iterations)
  senderAddr,  \* senderAddr of the current iteration ("none" between)
  rwRequest,   \* rwRequest, declared outside the loop
  lreplies,    \* history: the datagrams the listener wrote, with their target
               \* and the number of the received datagram they answer
  nrecv,       \* history: how many datagrams the listener received
  ldgram,      \* history: the datagram ReadFrom returned in the current
               \* iteration, as it was on the wire (empty between iterations)
  sess,        \* the goroutines running handle, in spawn order
  hist         \* history of each session: at, the number of the received
               \* datagram that started it; tx, the Data packets it wrote;
               \* blockTx, how many of them in a row were the last one;
               \* blocks, how many different ones there were;
               \* lastSent, the last of them; acked, the last block number for
               \* which it received an Acknowledgment of the block it awaited
               \* (-1: none); gotReply, whether a read returned a datagram;
               \* cause, why it returned early; rx, what its last read returned

\* The codec on its own: a value handed to a MarshalBinary, and what the
\* codec made of it.
VARIABLES
  codecIn,     \* the Request to encode
  codecOut     \* stage "in": nothing yet; "wire": bytes, what MarshalBinary
               \* returned; "out": err and r, what UnmarshalBinary returned and
               \* left in its receiver

codecVars == << codecIn, codecOut >>

vars == << payload, lpc, lbuf, senderAddr, rwRequest, lreplies, nrecv, ldgram, sess, hist,
           codecIn, codecOut >>

listenerVars == << lpc, lbuf, senderAddr, rwRequest, lreplies, nrecv, ldgram >>

Sessions == 1..Len(sess)

Terminal(s) == sess[s].pc \in { "Completed", "Aborted" }

\* Payload lengths: empty, a partial block, one full block, a full block and
\* a partial one.
PayloadLens == { 0, 88, BlockSize, 600 }

\* A payload of U16Mod - 1 full blocks and a partial one: its last block is
\* the first whose ordinal does not fit the uint16 block number.
WrapLen == BlockSize * (U16Mod - 1) + 88

\* The zero value of ReadWriteRequest.
NoRequest == [Filename |-> << >>, Mode |-> << >>]

InitWith(lens) ==
  /\ payload \in lens
  /\ lpc = "ReadFrom"
  /\ lbuf = << >>
  /\ senderAddr = "none"
  /\ rwRequest = [Filename |-> << >>, Mode |-> << >>]
  /\ lreplies = << >>
  /\ nrecv = 0
  /\ ldgram = << >>
  /\ sess = << >>
  /\ hist = << >>
  /\ codecIn = NoRequest
  /\ codecOut = [stage |-> "none"]

Init == InitWith(PayloadLens)

(***************************************************************************)
(* ListenAndServe, lines 43-58.                                            *)
(***************************************************************************)
\* The reply of line 52: []byte{byte(ErrorOp), byte(ErrIllegalOp), 0}.
IllegalOpReply == << ByteOf(ErrorOp), ByteOf(ErrIllegalOp), 0 >>

\* Lines 44-45: a fresh zeroed buf, and ReadFrom returns datagram d of a.
ListenReadFrom(d, a) ==
  /\ lpc = "ReadFrom"
  /\ lbuf' = ReadInto(<< >>, d)
  /\ senderAddr' = a
  /\ nrecv' = nrecv + 1
  /\ ldgram' = d
  /\ lpc' = "Unmarshal"
  /\ UNCHANGED << codecVars, payload, rwRequest, lreplies, sess, hist >>

\* Lines 46-48: ReadFrom fails, ListenAndServe returns the error and main
\* returns, which ends the process and every goroutine with it.
ListenReadFromErr ==
  /\ lpc = "ReadFrom"
  /\ lpc' = "Stopped"
  /\ UNCHANGED << codecVars, payload, lbuf, senderAddr, rwRequest, lreplies, nrecv, ldgram,
                  sess, hist >>

\* The locals of a goroutine that has not run yet: the arguments of the go
\* statement are evaluated (copied) when it executes.
NewSession(addr, req) ==
  [ pc |-> "Dial", clientAddr |-> addr, request |-> req, conn |-> "none",
    BlockNum |-> 0, cursor |-> 0, data |-> NoData, i |-> 0, n |-> 0,
    buf |-> << >> ]

NewHist(k) ==
  [ at |-> k, tx |-> 0, blockTx |-> 0, blocks |-> 0, lastSent |-> NoData, acked |-> -1, gotReply |-> FALSE,
    cause |-> "", rx |-> [kind |-> "none", bytes |-> << >>] ]

\* Mutant of ListenReject: the continue is missing, and the goroutine is
\* started for the request that did not decode as well.
ListenRejectNoContinue ==
  /\ lpc = "Unmarshal"
  /\ RequestUnmarshal(rwRequest, Bytes(lbuf)).err
  /\ rwRequest' = RequestUnmarshal(rwRequest, Bytes(lbuf)).r
  /\ lreplies' = Append(lreplies, [to |-> senderAddr, bytes |-> IllegalOpReply, at |-> nrecv])
  /\ sess' = Append(sess, NewSession(senderAddr, rwRequest'))
  /\ hist' = Append(hist, NewHist(nrecv))
  /\ lpc' = "ReadFrom"
  /\ lbuf' = << >>
  /\ ldgram' = << >>
  /\ senderAddr' = "none"
  /\ UNCHANGED << codecVars, payload, nrecv >>

\* Lines 50-55: the request does not decode; reply and continue. buf and
\* senderAddr are locals of the loop body: the iteration ends and they are
\* gone.
ListenReject ==
  /\ lpc = "Unmarshal"
  /\ RequestUnmarshal(rwRequest, Bytes(lbuf)).err
  /\ rwRequest' = RequestUnmarshal(rwRequest, Bytes(lbuf)).r
  /\ lreplies' = Append(lreplies, [to |-> senderAddr, bytes |-> IllegalOpReply, at |-> nrecv])
  /\ lpc' = "ReadFrom"
  /\ lbuf' = << >>
  /\ ldgram' = << >>
  /\ senderAddr' = "none"
  /\ UNCHANGED << codecVars, payload, nrecv, sess, hist >>

\* Mutant of ListenSpawn: handle is called without go, and the listener is
\* held up until the sessions before have returned.
ListenSpawnNoGo ==
  /\ lpc = "Unmarshal"
  /\ \A s \in Sessions : Terminal(s)
  /\ ~RequestUnmarshal(rwRequest, Bytes(lbuf)).err
  /\ rwRequest' = RequestUnmarshal(rwRequest, Bytes(lbuf)).r
  /\ sess' = Append(sess, NewSession(senderAddr, rwRequest'))
  /\ hist' = Append(hist, NewHist(nrecv))
  /\ lpc' = "ReadFrom"
  /\ lbuf' = << >>
  /\ ldgram' = << >>
  /\ senderAddr' = "none"
  /\ UNCHANGED << codecVars, payload, lreplies, nrecv >>

\* Mutant of ListenSpawn: the goroutines are handed &rwRequest, and see the
\* request decoded last.
ListenSpawnSharesRequest ==
  /\ lpc = "Unmarshal"
  /\ ~RequestUnmarshal(rwRequest, Bytes(lbuf)).err
  /\ rwRequest' = RequestUnmarshal(rwRequest, Bytes(lbuf)).r
  /\ sess' = Append([k \in 1..Len(sess) |-> [sess[k] EXCEPT !.request = rwRequest']],
                    NewSession(senderAddr, rwRequest'))
  /\ hist' = Append(hist, NewHist(nrecv))
  /\ lpc' = "ReadFrom"
  /\ lbuf' = << >>
  /\ ldgram' = << >>
  /\ senderAddr' = "none"
  /\ UNCHANGED << codecVars, payload, lreplies, nrecv >>

\* Lines 50, 57: the request decodes; go s.handle(senderAddr, rwRequest).
ListenSpawn ==
  /\ lpc = "Unmarshal"
  /\ ~RequestUnmarshal(rwRequest, Bytes(lbuf)).err
  /\ rwRequest' = RequestUnmarshal(rwRequest, Bytes(lbuf)).r
  /\ sess' = Append(sess, NewSession(senderAddr, rwRequest'))
  /\ hist' = Append(hist, NewHist(nrecv))
  /\ lpc' = "ReadFrom"
  /\ lbuf' = << >>
  /\ ldgram' = << >>
  /\ senderAddr' = "none"
  /\ UNCHANGED << codecVars, payload, lreplies, nrecv >>

(***************************************************************************)
(* handle, lines 62-138.                                                   *)
(***************************************************************************)
\* A goroutine runs while the process does.
Running(s) == s \in Sessions /\ lpc # "Stopped"

\* Mutant of Return: no deferred conn.Close().
ReturnNoClose(sv, state) == [sv EXCEPT !.pc = state]

\* return: the deferred conn.Close() runs.
Return(sv, state) ==
  [sv EXCEPT !.pc = state, !.conn = IF sv.conn = "open" THEN "closed" ELSE sv.conn]

\* Lines 65, 72-80: Dial succeeds; the locals are set up.
SessDial(s) ==
  /\ Running(s)
  /\ sess[s].pc = "Dial"
  /\ sess' = [sess EXCEPT ![s] = [@ EXCEPT !.pc = "NextPacket", !.conn = "open",
                                            !.buf = << >>,
                                            !.n = DatagramSize]]
  /\ UNCHANGED << codecVars, payload, listenerVars, hist >>

\* Lines 66-69: Dial fails.
SessDialErr(s) ==
  /\ Running(s)
  /\ sess[s].pc = "Dial"
  /\ sess' = [sess EXCEPT ![s] = Return(@, "Aborted")]
  /\ hist' = [hist EXCEPT ![s].cause = "dial"]
  /\ UNCHANGED << codecVars, payload, listenerVars >>

\* Mutant of LoopCond: the loop goes on while the last packet had a payload.
LoopCondNonEmpty(n) == n > 4

\* Line 83: the condition of the NEXT_PACKET loop.
LoopCond(n) == n = DatagramSize

\* Mutant of SessMarshal: i is declared outside the NEXT_PACKET loop and keeps
\* its value from block to block.
SessMarshalKeepsBudget(s) ==
  /\ Running(s)
  /\ sess[s].pc = "NextPacket"
  /\ LoopCond(sess[s].n)
  /\ LET m == DataMarshal(sess[s].BlockNum, sess[s].cursor, payload) IN
       sess' = [sess EXCEPT ![s] = [@ EXCEPT !.pc = "Retries", !.BlockNum = m.BlockNum,
                                              !.cursor = m.cursor, !.data = m.data]]
  /\ UNCHANGED << codecVars, payload, listenerVars, hist >>

\* Lines 83-84: another block; Data.MarshalBinary advances the block number
\* and the cursor, and the RETRIES loop starts at i = 0.
SessMarshal(s) ==
  /\ Running(s)
  /\ sess[s].pc = "NextPacket"
  /\ LoopCond(sess[s].n)
  /\ LET m == DataMarshal(sess[s].BlockNum, sess[s].cursor, payload) IN
       sess' = [sess EXCEPT ![s] = [@ EXCEPT !.pc = "Retries", !.BlockNum = m.BlockNum,
                                              !.cursor = m.cursor, !.data = m.data,
                                              !.i = 0]]
  /\ UNCHANGED << codecVars, payload, listenerVars, hist >>

\* Lines 83, 136-138: the last block was short; the transfer is done.
SessDone(s) ==
  /\ Running(s)
  /\ sess[s].pc = "NextPacket"
  /\ ~LoopCond(sess[s].n)
  /\ sess' = [sess EXCEPT ![s] = Return(@, "Completed")]
  /\ UNCHANGED << codecVars, payload, listenerVars, hist >>

\* Mutant of RetryCond: one attempt too few.
RetryCondOneFewer(i) == i < retries - 1

\* Mutant of RetryCond: one attempt too many.
RetryCondOffByOne(i) == i <= retries

\* Line 91: the condition of the RETRIES loop.
RetryCond(i) == i < retries

\* Lines 91-92: conn.Write(data) succeeds and returns len(data).
SessWrite(s) ==
  /\ Running(s)
  /\ sess[s].pc = "Retries"
  /\ RetryCond(sess[s].i)
  /\ sess' = [sess EXCEPT ![s] = [@ EXCEPT !.pc = "Read", !.n = DataLen(sess[s].data)]]
  /\ hist' = [hist EXCEPT ![s] =
                [@ EXCEPT !.tx = @ + 1,
                          !.blockTx = IF hist[s].tx > 0 /\ sess[s].data = hist[s].lastSent
                                      THEN @ + 1 ELSE 1,
                          !.blocks = IF hist[s].tx > 0 /\ sess[s].data = hist[s].lastSent
                                     THEN @ ELSE @ + 1,
                          !.lastSent = sess[s].data]]
  /\ UNCHANGED << codecVars, payload, listenerVars >>

\* Lines 92-96: conn.Write fails.
SessWriteErr(s) ==
  /\ Running(s)
  /\ sess[s].pc = "Retries"
  /\ RetryCond(sess[s].i)
  /\ sess' = [sess EXCEPT ![s] = Return(@, "Aborted")]
  /\ hist' = [hist EXCEPT ![s].cause = "write"]
  /\ UNCHANGED << codecVars, payload, listenerVars >>

\* Lines 91, 131-133: the RETRIES loop ran out.
SessExhausted(s) ==
  /\ Running(s)
  /\ sess[s].pc = "Retries"
  /\ ~RetryCond(sess[s].i)
  /\ sess' = [sess EXCEPT ![s] = Return(@, "Aborted")]
  /\ hist' = [hist EXCEPT ![s].cause = "exhausted"]
  /\ UNCHANGED << codecVars, payload, listenerVars >>

\* Mutant of SessReadTimeout: MarshalBinary is called inside the RETRIES
\* loop, and the packet sent again is read from where the reader stands.
SessReadTimeoutRemarshal(s) ==
  /\ Running(s)
  /\ sess[s].pc = "Read"
  /\ LET k == CopyN(payload, sess[s].cursor) IN
       sess' = [sess EXCEPT ![s] =
                  [@ EXCEPT !.pc = "Retries", !.i = @ + 1,
                            !.cursor = @ + k,
                            !.data = [hdr |-> sess[s].data.hdr,
                                      from |-> sess[s].cursor,
                                      to |-> sess[s].cursor + k]]]
  /\ hist' = [hist EXCEPT ![s].rx = [kind |-> "timeout", bytes |-> << >>]]
  /\ UNCHANGED << codecVars, payload, listenerVars >>

\* Mutant of SessReadTimeout: continue NEXT_PACKET instead of RETRIES.
SessReadTimeoutNextPacket(s) ==
  /\ Running(s)
  /\ sess[s].pc = "Read"
  /\ sess' = [sess EXCEPT ![s] = [@ EXCEPT !.pc = "NextPacket"]]
  /\ hist' = [hist EXCEPT ![s].rx = [kind |-> "timeout", bytes |-> << >>]]
  /\ UNCHANGED << codecVars, payload, listenerVars >>

\* Lines 98-103: the read deadline passes; continue RETRIES.
SessReadTimeout(s) ==
  /\ Running(s)
  /\ sess[s].pc = "Read"
  /\ sess' = [sess EXCEPT ![s] = [@ EXCEPT !.pc = "Retries", !.i = @ + 1]]
  /\ hist' = [hist EXCEPT ![s].rx = [kind |-> "timeout", bytes |-> << >>]]
  /\ UNCHANGED << codecVars, payload, listenerVars >>

\* Lines 99-105: conn.Read fails with an error that is no timeout.
SessReadErr(s) ==
  /\ Running(s)
  /\ sess[s].pc = "Read"
  /\ sess' = [sess EXCEPT ![s] = Return(@, "Aborted")]
  /\ hist' = [hist EXCEPT ![s] = [@ EXCEPT !.cause = "read",
                                           !.rx = [kind |-> "ioerr", bytes |-> << >>]]]
  /\ UNCHANGED << codecVars, payload, listenerVars >>

\* Mutant of ReplyOutcome: an Acknowledgment of an earlier block is taken
\* for the awaited one.
ReplyOutcomeAckUpTo(buf, blk) ==
  LET code == U16At(buf, 1) IN
  IF code = AcknowledgmentOp
  THEN LET a == AckUnmarshal(buf) IN
       IF a.err THEN "retry"
       ELSE IF a.BlockNum <= blk THEN "next" ELSE "retry"
  ELSE IF code = ErrorOp
  THEN IF ErrUnmarshal(buf).err THEN "retry" ELSE "abort"
  ELSE "retry"

\* Mutant of ReplyOutcome: the default case returns, as does an Error packet
\* that does not decode.
ReplyOutcomeBadAborts(buf, blk) ==
  LET code == U16At(buf, 1) IN
  IF code = AcknowledgmentOp
  THEN LET a == AckUnmarshal(buf) IN
       IF a.err THEN "retry"
       ELSE IF a.BlockNum = blk THEN "next" ELSE "retry"
  ELSE "abort"

\* Mutant of ReplyOutcome: the Error case has no return and the loop goes on.
ReplyOutcomeErrRetries(buf, blk) ==
  LET code == U16At(buf, 1) IN
  IF code = AcknowledgmentOp
  THEN LET a == AckUnmarshal(buf) IN
       IF a.err THEN "retry"
       ELSE IF a.BlockNum = blk THEN "next" ELSE "retry"
  ELSE "retry"

\* Lines 108-128: the switch on the opcode found in buf, for a session whose
\* current block is blk: "next" (continue NEXT_PACKET), "retry" (the next
\* iteration of RETRIES) or "abort" (return).
ReplyOutcome(buf, blk) ==
  LET code == U16At(buf, 1) IN
  IF code = AcknowledgmentOp
  THEN LET a == AckUnmarshal(buf) IN
       IF a.err THEN "retry"
       ELSE IF a.BlockNum = blk THEN "next" ELSE "retry"
  ELSE IF code = ErrorOp
  THEN IF ErrUnmarshal(buf).err THEN "retry" ELSE "abort"
  ELSE "retry"

\* Whether datagram d is an Acknowledgment of block blk.
IsAckOf(d, blk) == ~AckUnmarshal(d).err /\ AckUnmarshal(d).BlockNum = blk

\* Lines 99, 108-128: conn.Read(buf) returns datagram d; the byte count is
\* dropped and the whole of buf is decoded.
SessRead(s, d) ==
  /\ Running(s)
  /\ sess[s].pc = "Read"
  /\ LET b == ReadInto(sess[s].buf, d)
         o == ReplyOutcome(Bytes(b), sess[s].BlockNum)
     IN /\ sess' = [sess EXCEPT ![s] =
                      IF o = "next" THEN [@ EXCEPT !.buf = b, !.pc = "NextPacket"]
                      ELSE IF o = "retry"
                      THEN [@ EXCEPT !.buf = b, !.pc = "Retries", !.i = @ + 1]
                      ELSE Return([@ EXCEPT !.buf = b], "Aborted")]
        /\ hist' = [hist EXCEPT ![s] =
                      [@ EXCEPT !.rx = [kind |-> "dgram", bytes |-> d],
                                !.gotReply = TRUE,
                                !.acked = IF IsAckOf(d, sess[s].BlockNum)
                                          THEN sess[s].BlockNum ELSE @,
                                !.cause = IF o = "abort" THEN "peer" ELSE @]]
  /\ UNCHANGED << codecVars, payload, listenerVars >>

(***************************************************************************)
(* The request codec, applied to Requests: MarshalBinary, then             *)
(* UnmarshalBinary of what it returned into a zero ReadWriteRequest.       *)
(***************************************************************************)
\* The bytes of file names: 'f', 'F' and the zero byte.
NameBytes == { 102, 70, 0 }

\* File names of 1..MaxName bytes.
Names == UNION { [1..n -> NameBytes] : n \in 1..MaxName }

\* "octet" in four casings: octet, OCTET, Octet, oCtEt.
OctetCasings ==
  { Octet, << 79, 67, 84, 69, 84 >>, << 79, 99, 116, 101, 116 >>,
    << 111, 67, 116, 69, 116 >> }

InitCodec ==
  /\ payload = 0
  /\ lpc = "Stopped"
  /\ lbuf = << >>
  /\ senderAddr = "none"
  /\ rwRequest = NoRequest
  /\ lreplies = << >>
  /\ nrecv = 0
  /\ ldgram = << >>
  /\ sess = << >>
  /\ hist = << >>
  /\ codecIn \in [Filename : Names, Mode : OctetCasings]
  /\ codecOut = [stage |-> "in"]

\* r.MarshalBinary().
CodecMarshal ==
  /\ codecOut.stage = "in"
  /\ codecOut' = [stage |-> "wire", bytes |-> RequestMarshal(codecIn)]
  /\ UNCHANGED << codecIn, payload, listenerVars, sess, hist >>

\* var q ReadWriteRequest; q.UnmarshalBinary(bytes).
CodecUnmarshal ==
  /\ codecOut.stage = "wire"
  /\ LET u == RequestUnmarshal(NoRequest, codecOut.bytes) IN
       codecOut' = [stage |-> "out", bytes |-> codecOut.bytes, err |-> u.err, r |-> u.r]
  /\ UNCHANGED << codecIn, payload, listenerVars, sess, hist >>

NextCodec == CodecMarshal \/ CodecUnmarshal

SpecCodec == InitCodec /\ [][NextCodec]_vars

(***************************************************************************)
(* Specifications.                                                         *)
(***************************************************************************)
\* One request of one client, and a client that may send anything or
\* nothing to the session that serves it.
Next ==
  \/ \E d \in { RequestMarshal([Filename |-> FileF, Mode |-> << >>]), << 1, 2, 3 >> } :
       nrecv = 0 /\ ListenReadFrom(d, "c1")
  \/ ListenReject
  \/ ListenSpawn
  \/ \E s \in Sessions : SessDial(s)
  \/ \E s \in Sessions : SessDialErr(s)
  \/ \E s \in Sessions : SessMarshal(s)
  \/ \E s \in Sessions : SessDone(s)
  \/ \E s \in Sessions : SessWrite(s)
  \/ \E s \in Sessions : SessWriteErr(s)
  \/ \E s \in Sessions : SessExhausted(s)
  \/ \E s \in Sessions : SessReadTimeout(s)
  \/ \E s \in Sessions : SessReadErr(s)
  \/ \E s \in Sessions : \E d \in SessionDatagrams(sess[s].BlockNum) : SessRead(s, d)

Spec == Init /\ [][Next]_vars

\* Every step session s can take. The goroutine is scheduled, and a read
\* with a deadline returns: with a datagram, a timeout or an error.
SessStep(s) ==
  \/ SessDial(s)
  \/ SessDialErr(s)
  \/ SessMarshal(s)
  \/ SessDone(s)
  \/ SessWrite(s)
  \/ SessWriteErr(s)
  \/ SessExhausted(s)
  \/ SessReadTimeout(s)
  \/ SessReadErr(s)
  \/ Running(s) /\ \E d \in SessionDatagrams(sess[s].BlockNum) : SessRead(s, d)

FairSpec == Spec /\ WF_vars(SessStep(1))

\* One request, a network without failures, and a client that answers every
\* Data packet with the Acknowledgment of its block.
InitLockstep == InitWith(PayloadLens \cup { WrapLen })

NextLockstep ==
  \/ nrecv = 0 /\ ListenReadFrom(RequestMarshal([Filename |-> FileF, Mode |-> << >>]), "c1")
  \/ ListenSpawn
  \/ \E s \in Sessions : SessDial(s)
  \/ \E s \in Sessions : SessMarshal(s)
  \/ \E s \in Sessions : SessDone(s)
  \/ \E s \in Sessions : SessWrite(s)
  \/ \E s \in Sessions : \E d \in LockstepDatagrams(sess[s].BlockNum) : SessRead(s, d)

SpecLockstep == InitLockstep /\ [][NextLockstep]_vars

\* The server: several datagrams on the listener's port, from several
\* clients, and the sessions they start running side by side.
NextServer ==
  \/ \E d \in ListenerDatagrams, a \in Clients :
       nrecv < MaxDatagrams /\ ListenReadFrom(d, a)
  \/ ListenReadFromErr
  \/ ListenReject
  \/ ListenSpawn
  \/ \E s \in Sessions : SessDial(s)
  \/ \E s \in Sessions : SessDialErr(s)
  \/ \E s \in Sessions : SessMarshal(s)
  \/ \E s \in Sessions : SessDone(s)
  \/ \E s \in Sessions : SessWrite(s)
  \/ \E s \in Sessions : SessWriteErr(s)
  \/ \E s \in Sessions : SessExhausted(s)
  \/ \E s \in Sessions : SessReadTimeout(s)
  \/ \E s \in Sessions : SessReadErr(s)
  \/ \E s \in Sessions : \E d \in ServerDatagrams(sess[s].BlockNum) : SessRead(s, d)

InitServer == InitWith({ 0, 88 })

SpecServer == InitServer /\ [][NextServer]_vars

\* The dispatcher: the same listener, and sessions whose clients answer each
\* block with its acknowledgment before the read's deadline.
NextDispatch ==
  \/ \E d \in ListenerDatagrams, a \in Clients :
       nrecv < MaxDatagrams /\ ListenReadFrom(d, a)
  \/ ListenReadFromErr
  \/ ListenReject
  \/ ListenSpawn
  \/ \E s \in Sessions : SessDial(s)
  \/ \E s \in Sessions : SessDialErr(s)
  \/ \E s \in Sessions : SessMarshal(s)
  \/ \E s \in Sessions : SessDone(s)
  \/ \E s \in Sessions : SessWrite(s)
  \/ \E s \in Sessions : SessWriteErr(s)
  \/ \E s \in Sessions : SessReadErr(s)
  \/ \E s \in Sessions : \E d \in LockstepDatagrams(sess[s].BlockNum) : SessRead(s, d)

SpecDispatch == InitServer /\ [][NextDispatch]_vars

\* Sessions side by side: every datagram is a request, the client of the
\* first session never answers, and the clients of the sessions after it
\* answer each block with its acknowledgment.
NextConcurrent ==
  \/ \E a \in Clients :
       /\ nrecv < MaxDatagrams
       /\ ListenReadFrom(RequestMarshal([Filename |-> FileF, Mode |-> << >>]), a)
  \/ ListenSpawn
  \/ \E s \in Sessions : SessDial(s)
  \/ \E s \in Sessions : SessMarshal(s)
  \/ \E s \in Sessions : SessDone(s)
  \/ \E s \in Sessions : SessWrite(s)
  \/ \E s \in Sessions : SessExhausted(s)
  \/ \E s \in Sessions : s = 1 /\ SessReadTimeout(s)
  \/ \E s \in Sessions :
       s > 1 /\ \E d \in LockstepDatagrams(sess[s].BlockNum) : SessRead(s, d)

\* Every step of the listener loop when requests keep coming.
ListenStep ==
  \/ \E a \in Clients :
       /\ nrecv < MaxDatagrams
       /\ ListenReadFrom(RequestMarshal([Filename |-> FileF, Mode |-> << >>]), a)
  \/ ListenSpawn

\* Every step of a session whose client answers.
ServedStep(s) ==
  \/ SessDial(s)
  \/ SessMarshal(s)
  \/ SessDone(s)
  \/ SessWrite(s)
  \/ Running(s) /\ s > 1 /\ \E d \in LockstepDatagrams(sess[s].BlockNum) : SessRead(s, d)

\* The listener goroutine and the goroutines of the sessions after the first
\* are scheduled; nothing is assumed about the first session, which may stop
\* at any point for as long as it likes.
InitConcurrent == InitWith({ 88 })

FairConcurrent ==
  /\ InitConcurrent
  /\ [][NextConcurrent]_vars
  /\ WF_vars(ListenStep)
  /\ \A s \in 2..MaxDatagrams : WF_vars(ServedStep(s))

\* Transmissions of session s that were not answered with the acknowledgment
\* of their block.
Losses(s) == hist[s].tx - hist[s].blocks

\* Whether one more transmission of session s may go unacknowledged: any
\* number of them for the short payloads, MaxLosses for the longest.
MayLose(s) == payload \in PayloadLens \/ Losses(s) < MaxLosses

\* A lossy transfer: one request, and a client that acknowledges the blocks,
\* but for the transmissions that are lost or that it answers with the
\* acknowledgment of the block before.
NextLossy ==
  \/ nrecv = 0 /\ ListenReadFrom(RequestMarshal([Filename |-> FileF, Mode |-> << >>]), "c1")
  \/ ListenSpawn
  \/ \E s \in Sessions : SessDial(s)
  \/ \E s \in Sessions : SessMarshal(s)
  \/ \E s \in Sessions : SessDone(s)
  \/ \E s \in Sessions : SessWrite(s)
  \/ \E s \in Sessions : SessExhausted(s)
  \/ \E s \in Sessions : MayLose(s) /\ SessReadTimeout(s)
  \/ \E s \in Sessions :
       /\ MayLose(s)
       /\ SessRead(s, AckMarshal((sess[s].BlockNum + U16Mod - 1) % U16Mod))
  \/ \E s \in Sessions : \E d \in LockstepDatagrams(sess[s].BlockNum) : SessRead(s, d)

SpecLossy == InitLockstep /\ [][NextLossy]_vars

(***************************************************************************)
(* Properties.                                                             *)
(***************************************************************************)
\* Session s completes a read in this step (with a datagram, a timeout or an
\* error).
ReadStep(s) == sess[s].pc = "Read" /\ sess'[s].pc # "Read"

\* In this step the read of session s returns a datagram.
Receives(s) == ReadStep(s) /\ hist'[s].rx.kind = "dgram"

\* Session s writes a Data packet in this step.
WriteStep(s) == hist'[s].tx # hist[s].tx

\* What a timeout does to session s: one attempt is consumed, and the block
\* counter, the cursor, the packet and the socket are as they were.
AsTimeout(s) ==
  /\ sess'[s].pc = "Retries"
  /\ sess'[s].i = sess[s].i + 1
  /\ sess'[s].BlockNum = sess[s].BlockNum
  /\ sess'[s].cursor = sess[s].cursor
  /\ sess'[s].data = sess[s].data
  /\ sess'[s].conn = sess[s].conn
  /\ hist'[s].tx = hist[s].tx

\* The number of payload bytes of block k (counted from 1) of a file of len
\* bytes.
BlockPayload(len, k) == IF k <= len \div BlockSize THEN BlockSize ELSE len % BlockSize

\* The packets of a lock-step transfer, apart from their numbers: the k-th
\* packet sent is the k-th block of the file, and the transfer is Completed
\* after floor(L/512)+1 of them.
LockstepShape ==
  \A s \in Sessions :
    LET k == hist[s].tx
        p == hist[s].lastSent
    IN /\ k <= payload \div BlockSize + 1
       /\ k > 0 => /\ p.from = BlockSize * (k - 1)
                   /\ p.to - p.from = BlockPayload(payload, k)
       /\ sess[s].pc = "Completed" => k = payload \div BlockSize + 1
       /\ sess[s].pc # "Aborted"

\* C1, as stated: when every Data block is answered by the Acknowledgment of
\* its block, the k-th Data packet sent is block number k, it carries 512
\* bytes unless it is the last, which carries L mod 512, and the session is
\* Completed after floor(L/512)+1 packets.
C1_BlocksNumbered1ToK ==
  /\ LockstepShape
  /\ \A s \in Sessions :
       hist[s].tx > 0 => DataBlock(hist[s].lastSent) = hist[s].tx

\* C1, amended: the same, with the k-th packet carrying block number
\* k mod 65536.
C1_BlocksNumberedMod65536 ==
  /\ LockstepShape
  /\ \A s \in Sessions :
       hist[s].tx > 0 => DataBlock(hist[s].lastSent) = hist[s].tx % U16Mod

\* C1, witness: Scenario B, a payload of 512 bytes sent as a full block and an
\* empty one.
C1_Witness ==
  \E s \in Sessions :
    /\ payload = BlockSize
    /\ sess[s].pc = "Completed"
    /\ hist[s].tx = 2
    /\ DataLen(hist[s].lastSent) = 4

\* C2: the first Data packet sent is block 1, and every later one carries the
\* block number of the packet before it, or that number plus one mod 65536
\* and then only after an Acknowledgment of the previous packet's block
\* number was received.
C2_BlockNumbersFollowAcks ==
  [][\A s \in Sessions :
       WriteStep(s) =>
         LET new == DataBlock(hist'[s].lastSent) IN
         IF hist[s].tx = 0 THEN new = 1
         ELSE LET old == DataBlock(hist[s].lastSent) IN
              \/ new = old
              \/ new = (old + 1) % U16Mod /\ hist[s].acked = old]_vars

\* C3: an Acknowledgment of the awaited block N moves the session to block
\* N+1 when block N was full and to Completed otherwise, and a session is
\* Completed only after it sent a Data packet shorter than a full block and
\* received an Acknowledgment carrying that packet's block number.
C3_CompletedOnlyAfterAck ==
  /\ [](\A s \in Sessions :
          sess[s].pc = "Completed" =>
            /\ DataLen(hist[s].lastSent) < DatagramSize
            /\ hist[s].acked = DataBlock(hist[s].lastSent))
  /\ [][\A s \in Sessions :
          (Receives(s) /\ IsAckOf(hist'[s].rx.bytes, sess[s].BlockNum)) =>
            /\ sess'[s].pc = "NextPacket"
            /\ sess'[s].n = DataLen(sess[s].data)
            /\ sess'[s].BlockNum = sess[s].BlockNum]_vars

\* C4: an Acknowledgment whose block number is not the awaited one does what
\* a timeout does (one attempt consumed; block counter and cursor unchanged),
\* and the packet then written is the same Data block again.
C4_MismatchedAckIsRetry ==
  /\ [][\A s \in Sessions :
          (ReadStep(s) /\ hist'[s].rx.kind = "timeout") => AsTimeout(s)]_vars
  /\ [][\A s \in Sessions :
          (/\ Receives(s)
           /\ ~AckUnmarshal(hist'[s].rx.bytes).err
           /\ AckUnmarshal(hist'[s].rx.bytes).BlockNum # sess[s].BlockNum)
          => AsTimeout(s)]_vars
  /\ [][\A s \in Sessions :
          (WriteStep(s) /\ sess[s].i > 0) =>
            /\ hist'[s].lastSent = hist[s].lastSent
            /\ hist'[s].lastSent = sess[s].data
            /\ sess'[s].BlockNum = sess[s].BlockNum
            /\ sess'[s].cursor = sess[s].cursor]_vars

\* C4, witness: Scenario D, block 2 sent again after the duplicate
\* Acknowledgment of block 1.
C4_Witness ==
  \E s \in Sessions :
    /\ sess[s].pc = "Read"
    /\ sess[s].BlockNum = 2
    /\ sess[s].i = 1
    /\ hist[s].rx = [kind |-> "dgram", bytes |-> AckMarshal(1)]
    /\ DataBlock(hist[s].lastSent) = 2

\* The session has had no datagram and no socket error: every read timed out.
Silent(s) == ~hist[s].gotReply /\ hist[s].cause \in { "", "exhausted" }

\* C5: with a client that never replies, every Data packet sent is block 1,
\* each timeout is followed by one more transmission of it, the session is
\* never Completed and is Aborted after exactly `retries` (10) transmissions,
\* and it sends nothing afterwards.
C5_SilentClientAborts ==
  /\ [](\A s \in Sessions :
          Silent(s) =>
            /\ sess[s].pc # "Completed"
            /\ sess[s].BlockNum \in { 0, 1 }
            /\ hist[s].tx > 0 => DataBlock(hist[s].lastSent) = 1
            /\ hist[s].tx = IF sess[s].pc = "Read" THEN sess[s].i + 1 ELSE sess[s].i
            /\ hist[s].tx <= retries
            /\ sess[s].pc = "Aborted" <=> hist[s].cause = "exhausted"
            /\ sess[s].pc = "Aborted" => hist[s].tx = retries)
  /\ [][\A s \in Sessions :
          sess[s].pc = "Aborted" => sess'[s] = sess[s] /\ hist'[s] = hist[s]]_vars

\* C5, witness: Scenario E, a session aborted after ten unanswered
\* transmissions of block 1.
C5_Witness ==
  \E s \in Sessions :
    /\ Silent(s)
    /\ sess[s].pc = "Aborted"
    /\ hist[s].tx = retries
    /\ hist[s].rx.kind = "timeout"
    /\ sess[s].conn = "closed"

\* A reply the switch of handle throws away: its opcode is neither
\* Acknowledgment nor Error, or it is an Error packet that fills the buffer
\* without a zero byte after its code.
BadReply(d) ==
  \/ Len(d) >= 2 /\ U16At(d, 1) \notin { AcknowledgmentOp, ErrorOp }
  \/ /\ Len(d) >= DatagramSize
     /\ U16At(d, 1) = ErrorOp
     /\ ZeroAt(SubSeq(d, 1, DatagramSize), 5) = 0

\* Once a session has returned it does nothing.
TerminalIsFinal ==
  [][\A s \in Sessions : Terminal(s) => sess'[s] = sess[s] /\ hist'[s] = hist[s]]_vars

C7_PeerErrorAborts ==
  /\ [][\A s \in Sessions :
          (Receives(s) /\ ~ErrUnmarshal(hist'[s].rx.bytes).err) =>
            /\ sess'[s].pc = "Aborted"
            /\ sess'[s].conn = "closed"
            /\ hist'[s].cause = "peer"
            /\ hist'[s].tx = hist[s].tx]_vars
  /\ [][\A s \in Sessions :
          sess[s].pc = "Aborted" => sess'[s].pc = "Aborted" /\ hist'[s].tx = hist[s].tx]_vars

\* C7, witness: a session aborted by an Error packet that answered the first
\* transmission of block 2, nine attempts left.
C7_Witness ==
  \E s \in Sessions :
    /\ sess[s].pc = "Aborted"
    /\ hist[s].cause = "peer"
    /\ hist[s].rx.bytes = ErrMarshal(1, << >>)
    /\ sess[s].BlockNum = 2
    /\ sess[s].i = 0

\* C8: every reply the listener sends to a request that does not decode is
\* the Error packet Opcode(2)=5, Code(2)=4, 0x00: ErrUnmarshal decodes it to
\* Code IllegalOperation and an empty Message.
C8_RejectReplyIsErrorPacket ==
  \A k \in 1..Len(lreplies) :
    LET e == ErrUnmarshal(lreplies[k].bytes) IN
    /\ ~e.err
    /\ e.Code = ErrIllegalOp
    /\ e.Message = << >>
    /\ lreplies[k].bytes = ErrMarshal(ErrIllegalOp, << >>)

\* How many replies and sessions answer the k-th datagram received.
RepliesTo(k) == Cardinality({ j \in 1..Len(lreplies) : lreplies[j].at = k })
SessionsFor(k) == Cardinality({ s \in Sessions : hist[s].at = k })

\* C9: every datagram the listener has handled has either one reply and no
\* session (it did not decode as a request) or one session and no reply (it
\* did), and the listener is back at its read after handling it.
C9_OneReplyOrOneSession ==
  /\ [](\A k \in 1..nrecv :
          (k < nrecv \/ lpc # "Unmarshal") => RepliesTo(k) + SessionsFor(k) = 1)
  /\ [][(lpc = "Unmarshal" /\ lpc' # "Unmarshal") =>
          /\ lpc' = "ReadFrom"
          /\ IF RequestUnmarshal(rwRequest, Bytes(lbuf)).err
             THEN /\ sess' = sess
                  /\ Len(lreplies') = Len(lreplies) + 1
                  /\ SubSeq(lreplies', 1, Len(lreplies)) = lreplies
                  /\ lreplies'[Len(lreplies')].to = senderAddr
                  /\ lreplies'[Len(lreplies')].at = nrecv
             ELSE /\ lreplies' = lreplies
                  /\ Len(sess') = Len(sess) + 1
                  /\ SubSeq(sess', 1, Len(sess)) = sess
                  /\ sess'[Len(sess')].clientAddr = senderAddr
                  /\ sess'[Len(sess')].pc = "Dial"
                  /\ hist'[Len(sess')].at = nrecv]_vars

\* C9, witness: a datagram that did not decode was answered, and the request
\* that came after it was served to the end.
C9_Witness ==
  /\ lpc = "ReadFrom"
  /\ RepliesTo(1) = 1
  /\ \E s \in Sessions : hist[s].at = 2 /\ sess[s].pc = "Completed"

\* Session s has been started; it has returned.
Started(s) == s \in Sessions
Ended(s) == IF s \in Sessions THEN Terminal(s) ELSE FALSE

\* C10: every session ends, Completed or Aborted, whatever the client sends
\* or does not send, and it writes at most retries x (floor(L/512)+1) Data
\* packets.
C10_SessionsTerminate ==
  /\ [](Started(1) => <>Ended(1))
  /\ [](\A s \in Sessions : hist[s].tx <= retries * (payload \div BlockSize + 1))

\* C10, witness: a session that used every attempt of both blocks of a
\* 600-byte payload.
C10_Witness ==
  \E s \in Sessions :
    /\ payload = 600
    /\ sess[s].pc = "Aborted"
    /\ hist[s].gotReply
    /\ hist[s].tx = retries * (payload \div BlockSize + 1)

\* Session s has returned with the whole payload sent.
Completed(s) == IF s \in Sessions THEN sess[s].pc = "Completed" ELSE FALSE

\* C11: with the first session in progress or stopped for good, its client
\* silent, the listener still handles every datagram it received and receives
\* the ones that come after, and every other session still runs to
\* Completed; a step of the listener or of one session leaves every other
\* session where it was.
C11_SessionsIndependent ==
  /\ <>[](/\ lpc = "ReadFrom"
          /\ nrecv = MaxDatagrams
          /\ Len(sess) = MaxDatagrams
          /\ \A s \in 2..MaxDatagrams : Completed(s))
  /\ [][\A s, u \in Sessions :
          (s # u /\ sess'[s] # sess[s]) => sess'[u] = sess[u]]_vars
  /\ [][(lpc' # lpc \/ nrecv' # nrecv) =>
          \A s \in Sessions : sess'[s] = sess[s]]_vars

\* C11, witness: the second session is Completed and the listener is back at
\* its read while the first session still waits for a reply to the first
\* transmission of its first block.
C11_Witness ==
  /\ lpc = "ReadFrom"
  /\ nrecv = MaxDatagrams
  /\ Len(sess) >= 2
  /\ sess[1].pc = "Read" /\ sess[1].i = 0 /\ sess[1].BlockNum = 1
  /\ sess[2].pc = "Completed"

\* A byte string with no zero byte in it.
NoZero(s) == \A k \in 1..Len(s) : s[k] # 0

\* The Request the codec was given has gone through MarshalBinary and
\* UnmarshalBinary, and came back with its Filename and its Mode in lower
\* case.
RoundTrip ==
  /\ ~codecOut.err
  /\ codecOut.r.Filename = codecIn.Filename
  /\ codecOut.r.Mode = ToLower(codecIn.Mode)

\* C12, as stated: every Request with a non-empty Filename and a Mode that is
\* "octet" in some casing decodes from its encoding, with the same Filename
\* and the Mode in lower case.
C12_RequestRoundTrip ==
  (codecOut.stage = "out" /\ Len(codecIn.Filename) > 0) => RoundTrip

\* C12, amended: the same for the Requests whose Filename holds no zero byte.
C12_RequestRoundTripNoZero ==
  /\ (/\ codecOut.stage = "out"
      /\ Len(codecIn.Filename) > 0
      /\ NoZero(codecIn.Filename)) => RoundTrip /\ codecOut.r.Mode = Octet
  /\ codecOut.stage = "wire" =>
       codecOut.bytes = U16Bytes(ReadOp) \o codecIn.Filename \o << 0 >>
                          \o codecIn.Mode \o << 0 >>

\* C12, witness: the Request "fF", "OCTET" has come back as "fF", "octet".
C12_Witness ==
  /\ codecOut.stage = "out"
  /\ codecIn = [Filename |-> << 102, 70 >>, Mode |-> << 79, 67, 84, 69, 84 >>]
  /\ ~codecOut.err
  /\ codecOut.r = [Filename |-> << 102, 70 >>, Mode |-> Octet]

\* Datagram d, as received, is a request: the opcode Read or Write, then a
\* non-empty file name and its zero byte, then a mode and its zero byte, the
\* mode being "octet" in some casing.
WireRequest(d) ==
  /\ Len(d) >= 2
  /\ U16At(d, 1) \in { ReadOp, WriteOp }
  /\ LET z1 == ZeroAt(d, 3) IN
       /\ z1 > 3
       /\ LET z2 == ZeroAt(d, z1 + 1) IN
            /\ z2 # 0
            /\ ToLower(SubSeq(d, z1 + 1, z2 - 1)) = Octet

\* C13: the listener starts a session for a datagram exactly when the
\* datagram, within the bytes received, is a request; every other datagram,
\* one whose file name or mode has no zero byte after it included, is
\* answered with the reject reply and starts no session.
C13_AcceptsExactlyRequests ==
  [][(lpc = "Unmarshal" /\ lpc' # "Unmarshal") =>
       IF WireRequest(ldgram)
       THEN Len(sess') = Len(sess) + 1 /\ lreplies' = lreplies
       ELSE sess' = sess /\ Len(lreplies') = Len(lreplies) + 1]_vars

\* Session s starts on a new block in this step.
NewBlockStep(s) == sess[s].pc = "NextPacket" /\ sess'[s].pc = "Retries"

\* C14: the attempts are counted per block. A session that starts on a new
\* block has all `retries` attempts whatever the blocks before used up; the
\* first transmission of a block is its first attempt; the attempts used are
\* the transmissions of the current block; and a session that gives up for
\* exhausted retries made all `retries` attempts on the block it gave up on.
C14_BudgetPerBlock ==
  /\ [][\A s \in Sessions : NewBlockStep(s) => sess'[s].i = 0]_vars
  /\ [][\A s \in Sessions :
          (WriteStep(s) /\ hist'[s].lastSent # hist[s].lastSent) =>
            sess[s].i = 0 /\ hist'[s].blockTx = 1]_vars
  /\ [](\A s \in Sessions :
          /\ sess[s].pc = "Read" => hist[s].blockTx = sess[s].i + 1
          /\ sess[s].pc = "Retries" =>
               sess[s].i = IF hist[s].tx > 0 /\ hist[s].lastSent = sess[s].data
                           THEN hist[s].blockTx ELSE 0
          /\ hist[s].cause = "exhausted" =>
               /\ sess[s].i = retries
               /\ hist[s].blockTx = retries
               /\ DataBlock(hist[s].lastSent) = sess[s].BlockNum)

\* C14, witness: block 1 was acknowledged at its last attempt, and block 2
\* then had all its attempts before the session gave up.
C14_Witness ==
  \E s \in Sessions :
    /\ hist[s].cause = "exhausted"
    /\ sess[s].BlockNum = 2
    /\ hist[s].acked = 1
    /\ hist[s].blockTx = retries
    /\ hist[s].tx = 2 * retries

\* C15, as stated: a block is sent again up to `retries` times after its
\* first transmission, retries + 1 transmissions in all, before the session
\* gives up, and never more often.
C15_RetriesAfterFirst ==
  \A s \in Sessions :
    /\ hist[s].blockTx <= retries + 1
    /\ hist[s].cause = "exhausted" => hist[s].blockTx = retries + 1

\* C15, amended: `retries` counts the transmissions of a block, the first
\* included: a block is sent `retries` times in all, the first transmission
\* and retries - 1 repetitions, before the session gives up, and never more
\* often.
C15_RetriesInAll ==
  \A s \in Sessions :
    /\ hist[s].blockTx <= retries
    /\ hist[s].cause = "exhausted" => hist[s].blockTx = retries

\* C15, witness: a session that gave up on block 1 after mismatched
\* acknowledgments and timeouts, ten transmissions in all.
C15_Witness ==
  \E s \in Sessions :
    /\ sess[s].pc = "Aborted"
    /\ hist[s].cause = "exhausted"
    /\ sess[s].BlockNum = 1
    /\ hist[s].blockTx = retries
    /\ hist[s].tx = retries
    /\ hist[s].rx = [kind |-> "dgram", bytes |-> AckMarshal(0)]

\* C16: a session that is Completed or Aborted stays as it is: it writes no
\* datagram and reads no reply any more; and however it got there (the last,
\* short block acknowledged, attempts used up, an Error packet, a failed
\* write, a failed read) its socket is closed.
C16_TerminalStatesAreFinal ==
  /\ TerminalIsFinal
  /\ [](\A s \in Sessions :
          Terminal(s) =>
            /\ sess[s].conn # "open"
            /\ sess[s].conn = "closed" <=> hist[s].cause # "dial"
            /\ sess[s].pc = "Completed" <=> hist[s].cause = ""
            /\ hist[s].cause \in { "", "dial", "write", "read", "exhausted", "peer" })
  /\ [](\A s \in Sessions : ~Terminal(s) => hist[s].cause = "")

\* C16, witness: a session that gave up after a failed read of the reply to
\* block 2, its socket closed.
C16_Witness ==
  \E s \in Sessions :
    /\ sess[s].pc = "Aborted"
    /\ hist[s].cause = "read"
    /\ sess[s].BlockNum = 2
    /\ sess[s].conn = "closed"
    /\ hist[s].tx = 2

\* C17: the payload never changes; a step of the listener leaves every
\* session as it is, and a step of a session leaves the listener and every
\* other session as they are; the request and the client address of a session
\* are those it was started with, whatever the listener decodes later.
C17_SessionStateIsPrivate ==
  /\ [][payload' = payload]_vars
  /\ [][\A s \in Sessions :
          /\ sess'[s].request = sess[s].request
          /\ sess'[s].clientAddr = sess[s].clientAddr]_vars
  /\ [][listenerVars' # listenerVars =>
          /\ \A s \in Sessions : sess'[s] = sess[s] /\ hist'[s] = hist[s]
          /\ Len(sess') > Len(sess) =>
               /\ sess'[Len(sess')].request = rwRequest'
               /\ sess'[Len(sess')].clientAddr = senderAddr]_vars
  /\ [][\A s \in Sessions :
          sess'[s] # sess[s] =>
            /\ listenerVars' = listenerVars
            /\ \A u \in Sessions \ { s } : sess'[u] = sess[u] /\ hist'[u] = hist[u]]_vars

\* C17, witness: the first session, started for "f" by c1, waits for the
\* reply to block 1 while the listener has decoded a request of c2 for "g"
\* and the session started for it has run to its end.
C17_Witness ==
  /\ Len(sess) = 2
  /\ sess[1].request.Filename = FileF /\ sess[1].clientAddr = "c1"
  /\ sess[2].request.Filename = FileG /\ sess[2].clientAddr = "c2"
  /\ rwRequest.Filename = FileG
  /\ sess[1].pc = "Read" /\ sess[1].BlockNum = 1
  /\ sess[2].pc = "Completed"

\* C18: the server is never stopped, neither by what happens in a session
\* nor by a failed receive on the listener socket, and a step of a session
\* leaves the listener where it is.
C18_NoFailureStopsServer ==
  /\ [](lpc # "Stopped")
  /\ [][\A s \in Sessions : sess'[s] # sess[s] => lpc' = lpc]_vars

\* C19: a reply of less than four bytes is never taken for the awaited
\* Acknowledgment: the session does what a timeout makes it do; and what a
\* session does with a reply is what the switch makes of the bytes of that
\* reply alone.
C19_ShortReplyNeverAccepted ==
  /\ [][\A s \in Sessions :
          (Receives(s) /\ Len(hist'[s].rx.bytes) < 4) => AsTimeout(s)]_vars
  /\ [][\A s \in Sessions :
          Receives(s) =>
            LET o == ReplyOutcome(Bytes(hist'[s].rx.bytes), sess[s].BlockNum) IN
            sess'[s].pc = IF o = "next" THEN "NextPacket"
                          ELSE IF o = "retry" THEN "Retries" ELSE "Aborted"]_vars

\* The cursor moves only when a session starts on a new block, and then by
\* the bytes of that block; a packet sent again is the packet sent before.
CursorPerBlock ==
  /\ [][\A s \in Sessions :
          sess'[s].cursor # sess[s].cursor =>
            /\ NewBlockStep(s)
            /\ sess'[s].cursor = Min(sess[s].cursor + BlockSize, payload)]_vars
  /\ [][\A s \in Sessions :
          (WriteStep(s) /\ sess[s].i > 0) => hist'[s].lastSent = hist[s].lastSent]_vars

\* C20, as stated: every transmission of the block with number k carries the
\* payload bytes 512*(k-1) up to min(512*k, L), whatever timeouts and
\* mismatched acknowledgments there were, and a Completed session has sent
\* the blocks 1..K, which in the order of their numbers make up the payload.
C20_BlockCarriesItsSlice ==
  /\ CursorPerBlock
  /\ [](\A s \in Sessions :
          hist[s].tx > 0 =>
            LET k == DataBlock(hist[s].lastSent) IN
            /\ hist[s].lastSent.from = BlockSize * (k - 1)
            /\ hist[s].lastSent.to = Min(BlockSize * k, payload)
            /\ hist[s].blocks = k
            /\ sess[s].pc = "Completed" => hist[s].lastSent.to = payload)

\* C20, amended: the same for the k-th block of the session, which has the
\* number k mod 65536, the blocks being taken in the order in which they
\* were first sent.
C20_KthBlockCarriesItsSlice ==
  /\ CursorPerBlock
  /\ [](\A s \in Sessions :
          hist[s].tx > 0 =>
            LET k == hist[s].blocks IN
            /\ hist[s].lastSent.from = BlockSize * (k - 1)
            /\ hist[s].lastSent.to = Min(BlockSize * k, payload)
            /\ DataBlock(hist[s].lastSent) = k % U16Mod
            /\ sess[s].pc = "Completed" =>
                 /\ hist[s].lastSent.to = payload
                 /\ k = payload \div BlockSize + 1)

\* C20, witness: a payload of 600 bytes sent to the end, its second block,
\* bytes 512..600, sent twice.
C20_Witness ==
  \E s \in Sessions :
    /\ payload = 600
    /\ sess[s].pc = "Completed"
    /\ hist[s].blocks = 2
    /\ hist[s].blockTx = 2
    /\ hist[s].lastSent.from = BlockSize /\ hist[s].lastSent.to = 600

====
